---- MODULE Spec2Model ----
(***************************************************************************)
(* The Atlas shell of apps/atlas/src/app.rs: the persisted AtlasApp state, *)
(* the per-frame update and the settings dialog's edit / save / cancel     *)
(* logic, together with the load (AtlasApp::new) and save callbacks.       *)
(*                                                                         *)
(* The widget toolkit is outside the repository.  Its part is modelled as  *)
(* the inputs of one frame: which widgets report a click, whether Ctrl+B   *)
(* was pressed and what was typed into the focused text field.  Widgets of *)
(* the settings window report input only in a frame that began with the    *)
(* window on screen; within that frame their reports are independent of    *)
(* each other, as should_close and should_save are in the code.            *)
(***************************************************************************)
EXTENDS Naturals, FiniteSets, Sequences, TLC

VARIABLES app, storage, readout, pc, last_close, dirty, keyed

vars == <<app, storage, readout, pc, last_close, dirty, keyed>>

(***************************************************************************)
(* Bounds of the model.                                                    *)
(***************************************************************************)
\* how many distinct texts each text field (model, host, port) can hold
NumTexts == 2
\* how many fields at most are missing from a stored snapshot at startup
MaxMissing == 2

ModelTexts == <<"mistral", "llama2", "phi3", "gemma">>
HostTexts == <<"localhost", "10.0.0.2", "gpu-box", "example.org">>
PortTexts == <<"11434", "8080", "", "99999">>

Models == {ModelTexts[i] : i \in 1..NumTexts}
Hosts == {HostTexts[i] : i \in 1..NumTexts}
Ports == {PortTexts[i] : i \in 1..NumTexts}

(***************************************************************************)
(* Data: NapkinService, NapkinSettings, Theme, AtlasApp.                   *)
(***************************************************************************)
NapkinService == [host : Hosts, port : Ports]

NapkinSettings == [model : Models, service : NapkinService]

NapkinSettings_default ==
    [model |-> "mistral", service |-> [host |-> "localhost", port |-> "11434"]]

Theme == {"Light", "Dark"}

Labels == {"Hello World!", "Napkin"}

AtlasApp ==
    [label : Labels, value : {"2.7"}, theme : Theme,
     side_panel_open : BOOLEAN, settings_window_open : BOOLEAN,
     napkin_settings : NapkinSettings, napkin_temp_settings : NapkinSettings]

\* a slip in the defaults: the side panel starts closed
AtlasApp_default_panel_closed ==
    [label |-> "Hello World!", value |-> "2.7", theme |-> "Dark",
     side_panel_open |-> FALSE, settings_window_open |-> FALSE,
     napkin_settings |-> NapkinSettings_default,
     napkin_temp_settings |-> NapkinSettings_default]

AtlasApp_default ==
    [label |-> "Hello World!", value |-> "2.7", theme |-> "Dark",
     side_panel_open |-> TRUE, settings_window_open |-> FALSE,
     napkin_settings |-> NapkinSettings_default,
     napkin_temp_settings |-> NapkinSettings_default]

(***************************************************************************)
(* Persistence.  eframe::set_value writes the serde form of the AtlasApp   *)
(* under APP_KEY: every field except the #[serde(skip)] value.  A stored   *)
(* snapshot is a function from the names of the fields it holds to their   *)
(* stored values; a snapshot written by another version or edited by hand  *)
(* may lack fields.                                                        *)
(***************************************************************************)
ser_service(s) == [host |-> s.host, port |-> s.port]

ser_settings(s) == [model |-> s.model, service |-> ser_service(s.service)]

\* a slip in the derive: theme is skipped as well
serialize_skips_theme(a) ==
    [label |-> a.label,
     side_panel_open |-> a.side_panel_open,
     settings_window_open |-> a.settings_window_open,
     napkin_settings |-> ser_settings(a.napkin_settings),
     napkin_temp_settings |-> ser_settings(a.napkin_temp_settings)]

\* #[derive(Serialize)] of AtlasApp: value is skipped
serialize(a) ==
    [label |-> a.label, theme |-> a.theme,
     side_panel_open |-> a.side_panel_open,
     settings_window_open |-> a.settings_window_open,
     napkin_settings |-> ser_settings(a.napkin_settings),
     napkin_temp_settings |-> ser_settings(a.napkin_temp_settings)]

\* The result of a fallible step: the empty set is an error, a singleton a value.
Some(x) == {x}
None == {}
Unwrap(o) == CHOOSE x \in o : TRUE

\* #[derive(Deserialize)] of NapkinService: no serde(default), both fields required
de_service(s) ==
    IF {"host", "port"} \subseteq DOMAIN s
    THEN Some([host |-> s.host, port |-> s.port])
    ELSE None

\* #[derive(Deserialize)] of NapkinSettings: no serde(default), both fields required
de_settings(s) ==
    IF {"model", "service"} \subseteq DOMAIN s /\ de_service(s.service) # None
    THEN Some([model |-> s.model, service |-> Unwrap(de_service(s.service))])
    ELSE None

\* #[derive(Deserialize)] of Theme: only the two variant names parse
de_theme(t) == IF t \in Theme THEN Some(t) ELSE None

\* does the stored field k of the snapshot parse as its type
de_field_ok(snap, k) ==
    CASE k = "theme" -> de_theme(snap[k]) # None
      [] k \in {"napkin_settings", "napkin_temp_settings"} -> de_settings(snap[k]) # None
      [] OTHER -> TRUE

\* #[derive(Deserialize)] #[serde(default)] of AtlasApp: a field missing from
\* the snapshot, and the skipped value, come from AtlasApp::default(); a field
\* that is present but does not parse fails the whole deserialization.
deserialize(snap) ==
    LET d == AtlasApp_default
        has(k) == k \in DOMAIN snap
    IN  IF \A k \in DOMAIN snap : de_field_ok(snap, k)
        THEN Some(
            [label |-> IF has("label") THEN snap.label ELSE d.label,
             value |-> d.value,
             theme |-> IF has("theme") THEN Unwrap(de_theme(snap.theme)) ELSE d.theme,
             side_panel_open |->
                 IF has("side_panel_open") THEN snap.side_panel_open
                 ELSE d.side_panel_open,
             settings_window_open |->
                 IF has("settings_window_open") THEN snap.settings_window_open
                 ELSE d.settings_window_open,
             napkin_settings |->
                 IF has("napkin_settings")
                 THEN Unwrap(de_settings(snap.napkin_settings))
                 ELSE d.napkin_settings,
             napkin_temp_settings |->
                 IF has("napkin_temp_settings")
                 THEN Unwrap(de_settings(snap.napkin_temp_settings))
                 ELSE d.napkin_temp_settings])
        ELSE None

(***************************************************************************)
(* The host's storage as the program meets it.  absent: cc.storage is None *)
(* (persistence not enabled).  empty: nothing under APP_KEY.  garbage: a   *)
(* string that is not a snapshot.  ron: a snapshot.  The program reads the *)
(* store only in AtlasApp::new and overwrites it in save; what it holds    *)
(* while frames run is never observed and is not tracked (unread).         *)
(***************************************************************************)
Absent == [kind |-> "absent"]
Empty == [kind |-> "empty"]
Garbage == [kind |-> "garbage"]
Unread == [kind |-> "unread"]
Ron(snap) == [kind |-> "ron", snap |-> snap]

\* eframe::get_value(storage, APP_KEY): None unless a snapshot is stored and parses
get_value(st) == IF st.kind = "ron" THEN deserialize(st.snap) ELSE None

\* Option::unwrap_or_default
unwrap_or_default(o) == IF o # None THEN Unwrap(o) ELSE AtlasApp_default

\* AtlasApp::new
new(st) ==
    IF st.kind # "absent"
    THEN unwrap_or_default(get_value(st))
    ELSE AtlasApp_default

\* eframe::App::save -> eframe::set_value(storage, APP_KEY, self)
save(a) == Ron(serialize(a))

(***************************************************************************)
(* What the storage can hold when the program first starts: nothing, or a  *)
(* snapshot of another installation, possibly with fields missing or with  *)
(* a theme this version does not know.                                     *)
(***************************************************************************)
Paths ==
    {<<"label">>, <<"theme">>, <<"side_panel_open">>, <<"settings_window_open">>,
     <<"napkin_settings">>, <<"napkin_temp_settings">>}
    \cup {<<k>> \o p : k \in {"napkin_settings", "napkin_temp_settings"},
                     p \in {<<"model">>, <<"service">>,
                            <<"service", "host">>, <<"service", "port">>}}

Without(f, keys) == [k \in DOMAIN f \ keys |-> f[k]]

Below(paths, k) == {Tail(p) : p \in {q \in paths : Len(q) > 1 /\ Head(q) = k}}

Gone(paths) == {Head(p) : p \in {q \in paths : Len(q) = 1}}

drop_service(s, paths) == Without(s, Gone(paths))

drop_settings(s, paths) ==
    LET kept == Without(s, Gone(paths))
    IN  [k \in DOMAIN kept |->
            IF k = "service" THEN drop_service(kept[k], Below(paths, k)) ELSE kept[k]]

\* the snapshot with the fields at the given paths removed
drop(snap, paths) ==
    LET kept == Without(snap, Gone(paths))
    IN  [k \in DOMAIN kept |->
            IF k \in {"napkin_settings", "napkin_temp_settings"}
            THEN drop_settings(kept[k], Below(paths, k))
            ELSE kept[k]]

ForeignApps ==
    {[label |-> "Napkin", value |-> "2.7", theme |-> "Light",
      side_panel_open |-> FALSE, settings_window_open |-> o,
      napkin_settings |->
          [model |-> ModelTexts[2],
           service |-> [host |-> HostTexts[2], port |-> PortTexts[2]]],
      napkin_temp_settings |->
          [model |-> ModelTexts[2],
           service |-> [host |-> HostTexts[1], port |-> PortTexts[2]]]]
     : o \in BOOLEAN}

DropSets == {ps \in SUBSET Paths : Cardinality(ps) <= MaxMissing}

InitStorages ==
    {Absent, Empty, Garbage}
    \cup {Ron(drop(serialize(a), ps)) : a \in ForeignApps, ps \in DropSets}
    \cup {Ron([serialize(a) EXCEPT !.theme = "Solarized"]) : a \in ForeignApps}

(***************************************************************************)
(* One frame's input, as the toolkit reports it to update.                 *)
(***************************************************************************)
NoEdit == [field |-> "none", text |-> ""]

\* what typing can do to the draft d in one frame: nothing, or give the one
\* text field that has the keyboard focus a new text
Edits(d) ==
    {NoEdit}
    \cup {[field |-> "model", text |-> t] : t \in Models \ {d.model}}
    \cup {[field |-> "host", text |-> t] : t \in Hosts \ {d.service.host}}
    \cup {[field |-> "port", text |-> t] : t \in Ports \ {d.service.port}}

\* The inputs a frame can have when it begins in state a.
\* settings, theme, file_browser, cancel, save: the button reported clicked();
\* close: the window's title-bar close was used; ctrl_b: the shortcut;
\* edit: what was typed into the window's text fields.
Inputs(a) ==
    IF a.settings_window_open
    THEN [settings : BOOLEAN, theme : BOOLEAN, file_browser : BOOLEAN,
          ctrl_b : BOOLEAN, edit : Edits(a.napkin_temp_settings),
          cancel : BOOLEAN, save : BOOLEAN, close : BOOLEAN]
    ELSE [settings : BOOLEAN, theme : BOOLEAN, file_browser : BOOLEAN,
          ctrl_b : BOOLEAN, edit : {NoEdit},
          cancel : {FALSE}, save : {FALSE}, close : {FALSE}]

(***************************************************************************)
(* AtlasApp::update and the functions it calls.                            *)
(***************************************************************************)
\* cfg!(target_arch = "wasm32"): the desktop build
is_web == FALSE

\* a slip: only the service is copied, the model is left
save_settings_service_only(a) ==
    [a EXCEPT !.napkin_settings.service = a.napkin_temp_settings.service]

save_settings(a) == [a EXCEPT !.napkin_settings = a.napkin_temp_settings]

\* a slip: the draft is left as typed
revert_settings_keeps_draft(a) == a

revert_settings(a) == [a EXCEPT !.napkin_temp_settings = a.napkin_settings]

\* File > Settings
menu_settings(a, in) ==
    IF ~is_web /\ in.settings THEN [a EXCEPT !.settings_window_open = TRUE] ELSE a

\* a slip: both buttons switch to Light
theme_button_one_way(a, in) ==
    IF in.theme THEN [a EXCEPT !.theme = "Light"] ELSE a

\* the theme button: the one shown depends on the theme
theme_button(a, in) ==
    CASE a.theme = "Dark" -> IF in.theme THEN [a EXCEPT !.theme = "Light"] ELSE a
      [] a.theme = "Light" -> IF in.theme THEN [a EXCEPT !.theme = "Dark"] ELSE a

\* ui.toggle_value(&mut self.side_panel_open, "File Browser")
file_browser_toggle(a, in) ==
    IF in.file_browser THEN [a EXCEPT !.side_panel_open = ~a.side_panel_open] ELSE a

top_panel(a, in) == file_browser_toggle(theme_button(menu_settings(a, in), in), in)

\* a slip: the label reads the draft
central_readout_of_draft(a) ==
    <<"Host: ", a.napkin_temp_settings.service.host,
      ", Port: ", a.napkin_temp_settings.service.port>>

\* the label the central panel draws
central_readout(a) ==
    <<"Host: ", a.napkin_settings.service.host,
      ", Port: ", a.napkin_settings.service.port>>

\* a slip: the shortcut is ignored while the settings window is open
central_panel_closed_only(a, in) ==
    IF in.ctrl_b /\ ~a.settings_window_open
    THEN [a EXCEPT !.side_panel_open = ~a.side_panel_open]
    ELSE a

central_panel(a, in) ==
    IF in.ctrl_b THEN [a EXCEPT !.side_panel_open = ~a.side_panel_open] ELSE a

\* the three text_edit_singleline widgets, bound to napkin_temp_settings
text_edits(a, in) ==
    CASE in.edit.field = "model" -> [a EXCEPT !.napkin_temp_settings.model = in.edit.text]
      [] in.edit.field = "host" ->
            [a EXCEPT !.napkin_temp_settings.service.host = in.edit.text]
      [] in.edit.field = "port" ->
            [a EXCEPT !.napkin_temp_settings.service.port = in.edit.text]
      [] OTHER -> a

should_save(in) == in.save

should_close(in) == in.cancel \/ in.save

\* egui::Window::open(&mut app.settings_window_open).show(..): the body runs
\* only while the flag is set, and the title-bar close clears the flag
window_show(a, in) ==
    IF a.settings_window_open
    THEN [text_edits(a, in) EXCEPT !.settings_window_open = ~in.close]
    ELSE a

\* whether the frame's clicks inside the window count: its body ran
body_ran(a) == a.settings_window_open

settings_window(a, in) ==
    LET w == window_show(a, in)
    IN  IF body_ran(a) /\ should_close(in)
        THEN IF should_save(in)
             THEN save_settings([w EXCEPT !.settings_window_open = FALSE])
             ELSE revert_settings([w EXCEPT !.settings_window_open = FALSE])
        ELSE w

update(a, in) == settings_window(central_panel(top_panel(a, in), in), in)

\* the label drawn during update: central_panel runs after the top panel and
\* before settings_window
update_readout(a, in) == central_readout(top_panel(a, in))

(***************************************************************************)
(* The state machine.  app is the AtlasApp, storage the host's store,      *)
(* readout the label the central panel drew in the latest frame (Blank     *)
(* before the first), pc whether the process runs or has exited.           *)
(* last_close, dirty and keyed record history for the properties:          *)
(* last_close is how the settings window was closed, while it stays        *)
(* closed; dirty whether the draft as typed differed from committed when   *)
(* it was closed; keyed whether Ctrl+B closed the side panel in the latest *)
(* frame while that frame began and ended with the window open and left a  *)
(* draft that differs from committed.                                      *)
(***************************************************************************)
Blank == <<>>

\* a first start of an installation with persistence: nothing usable is stored
StartStorages == {Empty, Garbage}

Constructed(storages) ==
    /\ storage \in storages
    /\ app = new(storage)
    /\ readout = Blank
    /\ pc = "running"
    /\ last_close = "none"
    /\ dirty = FALSE
    /\ keyed = FALSE

Init == Constructed(StartStorages)

\* how the frame closed the window, if it did
close_kind(in) ==
    IF should_save(in) THEN "save" ELSE IF should_close(in) THEN "cancel" ELSE "titlebar"

Frame(in) ==
    /\ pc = "running"
    /\ app' = update(app, in)
    /\ readout' = update_readout(app, in)
    /\ storage' = Unread
    /\ pc' = pc
    /\ last_close' =
           IF app'.settings_window_open THEN "none"
           ELSE IF app.settings_window_open THEN close_kind(in)
           ELSE last_close
    /\ dirty' =
           IF app'.settings_window_open THEN FALSE
           ELSE IF app.settings_window_open
                THEN text_edits(app, in).napkin_temp_settings # app.napkin_settings
           ELSE dirty
    /\ keyed' = (/\ in.ctrl_b /\ ~in.file_browser /\ app.side_panel_open
                  /\ app.settings_window_open /\ app'.settings_window_open
                  /\ app'.napkin_temp_settings # app'.napkin_settings)

\* the host calls save before shutdown
Save ==
    /\ pc = "running"
    /\ storage.kind # "absent"
    /\ storage' = save(app)
    /\ pc' = "exited"
    /\ UNCHANGED <<app, readout, last_close, dirty, keyed>>

\* a new process is constructed from what the store holds
Restart ==
    /\ pc = "exited"
    /\ app' = new(storage)
    /\ readout' = Blank
    /\ pc' = "running"
    /\ last_close' = "none"
    /\ dirty' = FALSE
    /\ keyed' = FALSE
    /\ UNCHANGED storage

Next ==
    \/ \E in \in Inputs(app) : Frame(in)
    \/ Save
    \/ Restart

Spec == Init /\ [][Next]_vars

(***************************************************************************)
(* Loading and saving alone, from everything the storage can hold at       *)
(* startup: the specification for the properties of new and save.          *)
(***************************************************************************)
InitLoad == Constructed(InitStorages)

NextLoad ==
    \/ Save
    \/ Restart

SpecLoad == InitLoad /\ [][NextLoad]_vars

TypeOK ==
    /\ app \in AtlasApp
    /\ storage.kind \in {"absent", "empty", "garbage", "unread", "ron"}
    /\ readout = Blank \/ Len(readout) = 4
    /\ pc \in {"running", "exited"}
    /\ last_close \in {"none", "save", "cancel", "titlebar"}
    /\ dirty \in BOOLEAN
    /\ keyed \in BOOLEAN

(***************************************************************************)
(* Properties.                                                             *)
(***************************************************************************)
committed == app.napkin_settings
draft == app.napkin_temp_settings
dialog_open == app.settings_window_open

\* the draft d after the frame's typing e
EditedDraft(d, e) ==
    [model |-> IF e.field = "model" THEN e.text ELSE d.model,
     service |->
         [host |-> IF e.field = "host" THEN e.text ELSE d.service.host,
          port |-> IF e.field = "port" THEN e.text ELSE d.service.port]]

\* the readout of the settings s
ReadoutOf(s) == <<"Host: ", s.service.host, ", Port: ", s.service.port>>

\* C1: whenever the settings dialog goes from Closed to Open, draft equals
\* committed in the state right after the transition.
C1_OpenInitializesDraft ==
    [][(~dialog_open /\ app'.settings_window_open)
       => app'.napkin_temp_settings = app'.napkin_settings]_vars

\* C2: a frame in which the open dialog is closed from its title bar, and
\* neither Save nor Cancel fires, leaves the dialog Closed with draft equal to
\* committed.
C2_TitleBarCloseReverts ==
    [][(dialog_open /\ ~app'.settings_window_open /\ last_close' = "titlebar")
       => app'.napkin_temp_settings = app'.napkin_settings]_vars

\* C3: typing into the open dialog leaves committed as it was; the Cancel
\* button then leaves committed as it was, closes the dialog and resets the
\* draft to committed; and when the dialog next goes from Closed to Open after
\* a Cancel, draft equals committed.
C3_CancelDiscardsEdits ==
    pc = "running" => \A in \in Inputs(app) :
       LET after == update(app, in)
       IN  /\ (dialog_open /\ ~in.save) => after.napkin_settings = committed
           /\ (dialog_open /\ in.cancel /\ ~in.save) =>
                  /\ ~after.settings_window_open
                  /\ after.napkin_temp_settings = committed
           /\ (last_close = "cancel" /\ ~dialog_open /\ after.settings_window_open) =>
                  after.napkin_temp_settings = after.napkin_settings

\* Cancel closed the dialog while the draft as typed differed from committed
C3_Witness ==
    /\ last_close = "cancel"
    /\ dirty
    /\ ~dialog_open
    /\ draft = committed

\* C4: in any frame in which Save fires, whatever else the dialog reports in
\* that frame, committed becomes the draft as edited, as one struct, and the
\* dialog is Closed; every frame drawn after a Save shows the host and port
\* that are committed, and committed stays what was saved until a Save fires.
C4_SaveCommitsDraft ==
    pc = "running" => \A in \in Inputs(app) :
       LET after == update(app, in)
       IN  /\ (dialog_open /\ in.save) =>
                  /\ after.napkin_settings = EditedDraft(draft, in.edit)
                  /\ ~after.settings_window_open
           /\ last_close = "save" =>
                  /\ update_readout(app, in) = ReadoutOf(committed)
                  /\ ~in.save => after.napkin_settings = committed

\* started from the defaults, a model and a host were typed and saved, and a
\* later frame shows the host
C4_Witness ==
    /\ last_close = "save"
    /\ dirty
    /\ ~dialog_open
    /\ committed.service.host = HostTexts[2]
    /\ committed.model = ModelTexts[2]
    /\ readout = ReadoutOf(committed)

\* C5: AtlasApp::new always returns a well-formed state, and with no storage,
\* nothing stored or a stored value that does not deserialize it returns the
\* documented defaults, with draft equal to committed.
C5_LoadFallsBackToDefaults ==
    (pc = "running" /\ readout = Blank) =>
       /\ app \in AtlasApp
       /\ (\/ storage.kind \in {"absent", "empty", "garbage"}
           \/ /\ storage.kind = "ron"
              /\ "theme" \in DOMAIN storage.snap
              /\ storage.snap.theme \notin {"Light", "Dark"})
          => /\ app.theme = "Dark"
             /\ app.side_panel_open = TRUE
             /\ app.settings_window_open = FALSE
             /\ committed.model = "mistral"
             /\ committed.service.host = "localhost"
             /\ committed.service.port = "11434"
             /\ draft = committed

\* constructed from a stored value that is not a snapshot
C5_Witness ==
    /\ pc = "running"
    /\ readout = Blank
    /\ storage = Garbage
    /\ app.theme = "Dark"

\* C6: a restart right after save returns the saved state field for field;
\* value comes back as its default.
C6_SaveLoadRoundTrip ==
    [][(Restart /\ storage = save(app)) =>
          /\ app'.theme = app.theme
          /\ app'.side_panel_open = app.side_panel_open
          /\ app'.settings_window_open = app.settings_window_open
          /\ app'.napkin_settings = app.napkin_settings
          /\ app'.label = app.label
          /\ app'.value = "2.7"]_vars

\* restarted from a snapshot this program saved after its settings were edited
C6_Witness ==
    /\ pc = "running"
    /\ readout = Blank
    /\ storage.kind = "ron"
    /\ storage.snap.theme = "Light"
    /\ storage.snap.side_panel_open = FALSE
    /\ storage.snap.settings_window_open = TRUE
    /\ storage.snap.napkin_settings =
          [model |-> ModelTexts[2],
           service |-> [host |-> HostTexts[1], port |-> PortTexts[2]]]
    /\ storage.snap.napkin_temp_settings # storage.snap.napkin_settings
    /\ app.theme = "Light"
    /\ ~app.side_panel_open
    /\ dialog_open
    /\ committed.model = ModelTexts[2]
    /\ committed.service.port = PortTexts[2]
    /\ draft # committed

\* the snapshot with every missing field, nested ones too, given its default
FilledService(s, d) ==
    [host |-> IF "host" \in DOMAIN s THEN s.host ELSE d.host,
     port |-> IF "port" \in DOMAIN s THEN s.port ELSE d.port]

FilledSettings(s, d) ==
    [model |-> IF "model" \in DOMAIN s THEN s.model ELSE d.model,
     service |->
         IF "service" \in DOMAIN s THEN FilledService(s.service, d.service)
         ELSE d.service]

Filled(snap) ==
    LET has(k) == k \in DOMAIN snap
    IN  [label |-> IF has("label") THEN snap.label ELSE "Hello World!",
         value |-> "2.7",
         theme |-> IF has("theme") THEN snap.theme ELSE "Dark",
         side_panel_open |->
             IF has("side_panel_open") THEN snap.side_panel_open ELSE TRUE,
         settings_window_open |->
             IF has("settings_window_open") THEN snap.settings_window_open ELSE FALSE,
         napkin_settings |->
             IF has("napkin_settings")
             THEN FilledSettings(snap.napkin_settings, NapkinSettings_default)
             ELSE NapkinSettings_default,
         napkin_temp_settings |->
             IF has("napkin_temp_settings")
             THEN FilledSettings(snap.napkin_temp_settings, NapkinSettings_default)
             ELSE NapkinSettings_default]

\* C7: loading a snapshot from which fields are missing, at the top level or
\* inside the settings, gives every missing field its default and keeps every
\* stored field.
C7_MissingFieldsTakeDefaults ==
    (/\ pc = "running"
     /\ readout = Blank
     /\ storage.kind = "ron"
     /\ ("theme" \in DOMAIN storage.snap => storage.snap.theme \in Theme))
    => app = Filled(storage.snap)

\* C8: in every frame Ctrl+B flips side_panel_open from what the File Browser
\* toggle left, whatever the dialog's state and input, and the frame's effect
\* on the dialog, the draft and committed is that of the same frame without
\* the shortcut; no dialog input has a part in side_panel_open.
C8_ShortcutIndependentOfDialog ==
    pc = "running" => \A in \in Inputs(app) :
       LET after == update(app, in)
           left == (app.side_panel_open # in.file_browser)
           same == update(app, [in EXCEPT !.ctrl_b = FALSE])
       IN  /\ in.ctrl_b => after.side_panel_open = ~left
           /\ ~in.ctrl_b => after.side_panel_open = left
           /\ after.settings_window_open = same.settings_window_open
           /\ after.napkin_temp_settings = same.napkin_temp_settings
           /\ after.napkin_settings = same.napkin_settings

\* Ctrl+B closed the side panel in a frame that began and ended with the
\* dialog open, and the draft that was typed into is as it was typed
C8_Witness ==
    /\ keyed
    /\ dialog_open
    /\ ~app.side_panel_open
    /\ draft # committed

\* C9: the theme is always Light or Dark; a frame changes it exactly when the
\* theme button is clicked, from Dark to Light and from Light to Dark; the
\* save callback does not change it.
C9_ThemeTwoState ==
    /\ [](/\ app.theme \in {"Light", "Dark"}
          /\ pc = "running" => \A in \in Inputs(app) :
                update(app, in).theme =
                    IF ~in.theme THEN app.theme
                    ELSE IF app.theme = "Dark" THEN "Light" ELSE "Dark")
    /\ [][Save => app'.theme = app.theme]_vars

\* the process started from the defaults (Dark) and the theme is Light
C9_Witness ==
    /\ app.theme = "Light"
    /\ readout # Blank

\* C10: within a process committed changes only in a frame in which Save
\* fires, and every frame draws the host and port that are committed when it
\* is drawn.
C10_CommittedOnlyBySave ==
    /\ [](pc = "running" => \A in \in Inputs(app) :
             /\ ~(dialog_open /\ in.save) =>
                    update(app, in).napkin_settings = committed
             /\ update_readout(app, in) = ReadoutOf(committed))
    /\ [][Save => app'.napkin_settings = committed]_vars

\* the draft's host and port were typed over and the readout still shows the
\* committed ones
C10_Witness ==
    /\ pc = "running"
    /\ dialog_open
    /\ draft.service.host # committed.service.host
    /\ draft.service.port # committed.service.port
    /\ readout = ReadoutOf(committed)
    /\ readout # ReadoutOf(draft)

====
